---------------------------- MODULE Spec2Model ----------------------------
(***************************************************************************)
(* State-machine model of bot_map's core (src/logic.py, class DB_Map) as   *)
(* it is driven by the chat handlers of src/bot.py: the cities catalog     *)
(* lookup, the users_cities favorites table and the map renderer.          *)
(*                                                                         *)
(* Text.  A string is a sequence of characters; a character is one of the  *)
(* tokens of Chars.  "E'" stands for LATIN CAPITAL LETTER E WITH ACUTE     *)
(* (U+00C9) and "e'" for LATIN SMALL LETTER E WITH ACUTE (U+00E9).         *)
(* Optional values (Python's None) are sequences of length 0 or 1.         *)
(***************************************************************************)
EXTENDS Integers, Sequences, FiniteSets, Bags, TLC

VARIABLES
    tableExists,   \* users_cities has been created in the database file
    users_cities,  \* the bag of rows <<user_id, city_id>> of table users_cities
    started,       \* bot.py has run its module body (manager.create_user_table())
    pc,            \* per worker thread: position inside DB_Map.add_city
    loc,           \* per worker thread: add_city's locals (user_id, city_id)
    openConns,     \* sqlite3 connections of finished calls that are still open
    openFigs,      \* matplotlib figures still registered with pyplot
    files,         \* image written at each output path (<<>> when none)
    ret            \* what the last finished call returned or raised

vars == <<tableExists, users_cities, started, pc, loc, openConns, openFigs, files, ret>>

---------------------------------------------------------------------------
(* Bounds of the model *)

\* figures that may stay open before no further render is started
MaxOpenFigs == 2
\* connections that may be left to the garbage collector at one time
MaxOpenConns == 1

Users == {1, 2}
Threads == {1, 2}

---------------------------------------------------------------------------
(* Text: characters, Python's str.strip, SQLite's LOWER and BINARY collation *)

Chars == {" ", "A", "Z", "a", "z", "E'", "e'"}

\* code point of a character (its order under SQLite's BINARY collation)
Code(c) ==
    CASE c = " " -> 32
      [] c = "A" -> 65
      [] c = "Z" -> 90
      [] c = "a" -> 97
      [] c = "z" -> 122
      [] c = "E'" -> 201
      [] c = "e'" -> 233

\* SQLite's built-in LOWER() folds the ASCII letters A-Z only
sqlite_lower_char(c) ==
    IF Code(c) >= 65 /\ Code(c) <= 90
    THEN CHOOSE d \in Chars : Code(d) = Code(c) + 32
    ELSE c

LOWER(s) == [i \in 1..Len(s) |-> sqlite_lower_char(s[i])]

RECURSIVE lstrip(_)
lstrip(s) == IF Len(s) > 0 /\ Head(s) = " " THEN lstrip(Tail(s)) ELSE s

RECURSIVE rstrip(_)
rstrip(s) ==
    IF Len(s) > 0 /\ s[Len(s)] = " " THEN rstrip(SubSeq(s, 1, Len(s) - 1)) ELSE s

\* Python's str.strip()
strip(s) == rstrip(lstrip(s))

\* s < t under BINARY collation (memcmp, the shorter string first on a tie)
RECURSIVE BinaryLess(_, _)
BinaryLess(s, t) ==
    IF Len(t) = 0 THEN FALSE
    ELSE IF Len(s) = 0 THEN TRUE
    ELSE IF Code(Head(s)) # Code(Head(t)) THEN Code(Head(s)) < Code(Head(t))
    ELSE BinaryLess(Tail(s), Tail(t))

---------------------------------------------------------------------------
(* The cities catalog: rows in storage (rowid) order *)

CityRow(id, city, lat, lng, country, population) ==
    [id |-> id, city |-> city, lat |-> lat, lng |-> lng,
     country |-> country, population |-> population]

cities ==
    << CityRow(1, <<"Z", "e'">>, 47, 8, "CH", 400),
       CityRow(2, <<"A", "z">>, 52, 4, "NL", 800),
       CityRow(3, <<"A", "z">>, 10, 20, "US", 30) >>

\* the names callers pass in
Names ==
    { <<"Z", "e'">>, <<"z", "e'">>, <<"Z", "E'">>, <<"Z">>,
      <<"A", "z">>, <<" ", "a", "Z", " ">> }

\* cursor.fetchone(): the first row of a result, or None
fetchone(rows) == IF Len(rows) = 0 THEN <<>> ELSE <<rows[1]>>

\* a variant of select_where_lower that matches on a prefix (LIKE ? || '%')
select_where_prefix(param) ==
    SelectSeq(cities, LAMBDA r :
        /\ Len(param) <= Len(r.city)
        /\ SubSeq(LOWER(r.city), 1, Len(param)) = LOWER(param))

\* SELECT ... FROM cities WHERE LOWER(city)=LOWER(?), in storage order
select_where_lower(param) ==
    SelectSeq(cities, LAMBDA r : LOWER(r.city) = LOWER(param))

\* DB_Map.get_city_by_name: the matching row, or None
get_city_by_name(city_name) == fetchone(select_where_lower(strip(city_name)))

\* DB_Map.get_coords_by_name: (lat, lng, city) of the matching row, or None
get_coords_by_name(city_name) ==
    LET row == fetchone(select_where_lower(strip(city_name)))
    IN  IF row # <<>> THEN << <<row[1].lat, row[1].lng, row[1].city>> >> ELSE <<>>


---------------------------------------------------------------------------
(* Python dicts over the keys the core uses: absent keys map to None (<<>>) *)

Dict(city, name, lat, lon, lng, country) ==
    [city |-> city, name |-> name, lat |-> lat, lon |-> lon, lng |-> lng,
     country |-> country]

---------------------------------------------------------------------------
(* The favorites table *)

\* a variant of insert_or_ignore for a table without the primary key
insert_always(table, row) == table (+) SetToBag({row})

\* INSERT OR IGNORE under PRIMARY KEY (user_id, city_id)
insert_or_ignore(table, row) ==
    IF BagIn(row, table) THEN table ELSE table (+) SetToBag({row})

\* the rows of users_cities with uc.user_id = ?, read through the primary-key
\* index: ascending city_id from `from` on
RECURSIVE rows_of_user(_, _, _)
rows_of_user(table, user_id, from) ==
    IF \A uc \in BagToSet(table) : ~(uc[1] = user_id /\ uc[2] >= from) THEN <<>>
    ELSE LET next == CHOOSE uc \in BagToSet(table) :
                        /\ uc[1] = user_id /\ uc[2] >= from
                        /\ \A o \in BagToSet(table) :
                              (o[1] = user_id /\ o[2] >= from) => uc[2] <= o[2]
         IN  [i \in 1..CopiesIn(next, table) |-> next]
                \o rows_of_user(table, user_id, next[2] + 1)

\* users_cities uc JOIN cities c ON c.id = uc.city_id WHERE uc.user_id = ?
RECURSIVE join_rows(_)
join_rows(ucs) ==
    IF Len(ucs) = 0 THEN <<>>
    ELSE SelectSeq(cities, LAMBDA c : c.id = Head(ucs)[2]) \o join_rows(Tail(ucs))

join_cities(table, user_id) == join_rows(rows_of_user(table, user_id, 0))

\* insertion of one row into a sequence ordered by city (BINARY collation)
RECURSIVE insert_by_city(_, _)
insert_by_city(sorted, r) ==
    IF Len(sorted) = 0 THEN <<r>>
    ELSE IF BinaryLess(r.city, Head(sorted).city)
         THEN <<r>> \o sorted
         ELSE <<Head(sorted)>> \o insert_by_city(Tail(sorted), r)

RECURSIVE sort_by_city(_)
sort_by_city(rows) ==
    IF Len(rows) = 0 THEN <<>>
    ELSE insert_by_city(sort_by_city(SubSeq(rows, 1, Len(rows) - 1)), rows[Len(rows)])

\* a variant of order_by_city that returns the rows as the join produced them
order_by_nothing(rows) == rows

\* ORDER BY c.city
order_by_city(rows) == sort_by_city(rows)

\* DB_Map.select_cities: the user's cities as dicts with both 'lon' and 'lng'
select_cities(table, user_id) ==
    LET rows == order_by_city(join_cities(table, user_id))
    IN  [i \in 1..Len(rows) |->
            Dict(<<rows[i].city>>, <<>>, <<rows[i].lat>>, <<rows[i].lng>>,
                 <<rows[i].lng>>, <<rows[i].country>>)]

---------------------------------------------------------------------------
(* Rendering: what a figure holds and what savefig writes *)

\* output paths: one in the working directory, one in a directory that does not exist
Paths == {"map.png", "missing/map.png"}

\* plt.savefig can create the file
writable(path) == path = "map.png"

\* a figure with the base layers only
BaseMap == [markers |-> <<>>, texts |-> <<>>, lines |-> <<>>, exc |-> ""]

\* Python truthiness of an optional string
truthy(opt) == opt # <<>> /\ opt[1] # <<>>

\* str(item.get("city") or item.get("name") or "")
point_name(item) ==
    IF truthy(item.city) THEN item.city[1]
    ELSE IF truthy(item.name) THEN item.name[1]
    ELSE <<>>

\* a variant of point_lon that reads the key 'lon' only
point_lon_only(item) == item.lon

\* item.get("lon", item.get("lng")): None when neither key is present
point_lon(item) == IF item.lon # <<>> THEN item.lon ELSE item.lng

\* a variant of text_position that puts the label on the marker
text_on_marker(lon, lat) == <<lon, lat>>

\* ax.text(lon + 1, lat + 1, ...)
text_position(lon, lat) == <<lon + 1, lat + 1>>

\* a variant of plot_item that passes over a point it cannot read
plot_item_skipping(ax, item) ==
    IF item.lat = <<>> \/ point_lon(item) = <<>> THEN ax
    ELSE LET name == point_name(item)
             lat == item.lat[1]
             lon == point_lon(item)[1]
             marked == [ax EXCEPT !.markers = Append(@, <<lon, lat>>)]
         IN  IF name # <<>>
             THEN [marked EXCEPT !.texts = Append(@, <<text_position(lon, lat), name>>)]
             ELSE marked

\* one pass of create_graph's loop body over `item`
plot_item(ax, item) ==
    IF item.lat = <<>> THEN [ax EXCEPT !.exc = "KeyError"]
    ELSE IF point_lon(item) = <<>> THEN [ax EXCEPT !.exc = "TypeError"]
    ELSE LET name == point_name(item)
             lat == item.lat[1]
             lon == point_lon(item)[1]
             marked == [ax EXCEPT !.markers = Append(@, <<lon, lat>>)]
         IN  IF name # <<>>
             THEN [marked EXCEPT !.texts = Append(@, <<text_position(lon, lat), name>>)]
             ELSE marked

\* `for item in cities:` up to the first exception
RECURSIVE plot_points(_, _)
plot_points(ax, items) ==
    IF Len(items) = 0 \/ ax.exc # "" THEN ax
    ELSE plot_points(plot_item(ax, Head(items)), Tail(items))

\* the figure of draw_distance: a line, its two end markers and two labels
distance_figure(c1, c2) ==
    [BaseMap EXCEPT
        !.lines = << << <<c1[2], c1[1]>>, <<c2[2], c2[1]>> >> >>,
        !.markers = << <<c1[2], c1[1]>>, <<c2[2], c2[1]>> >>,
        !.texts = << <<text_position(c1[2], c1[1]), c1[3]>>,
                     <<text_position(c2[2], c2[1]), c2[3]>> >>]

\* the image savefig writes for a figure
Image(ax) == [markers |-> ax.markers, texts |-> ax.texts, lines |-> ax.lines]

---------------------------------------------------------------------------
(* Results of calls *)

Ret(op) ==
    [op |-> op, user |-> 0, name |-> <<>>, flag |-> FALSE, row |-> <<>>,
     coords |-> <<>>, rows |-> <<>>, pts |-> <<>>, out_path |-> "", path |-> <<>>,
     exc |-> ""]

NoLoc == [user_id |-> 0, city_id |-> 0]

\* `with self._connect() as conn:` on exit commits (or rolls back) and does not
\* close conn; the connection is closed when the interpreter frees the object,
\* at return under reference counting, later under a tracing collector
connect_exit(k) ==
    openConns' \in {c \in openConns..(openConns + k) : c <= MaxOpenConns}

---------------------------------------------------------------------------
(* Initial state: a database file holding the catalog only *)

Init ==
    /\ tableExists = FALSE
    /\ users_cities = EmptyBag
    /\ started = FALSE
    /\ pc = [t \in Threads |-> "idle"]
    /\ loc = [t \in Threads |-> NoLoc]
    /\ openConns = 0
    /\ openFigs = 0
    /\ files = [p \in Paths |-> <<>>]
    /\ ret = Ret("none")

---------------------------------------------------------------------------
(* Storage operations *)

\* a variant of create_table_if_not_exists that recreates the table
create_table_always(exists, table) == EmptyBag

\* CREATE TABLE IF NOT EXISTS users_cities
create_table_if_not_exists(exists, table) == IF exists THEN table ELSE EmptyBag

\* DB_Map.create_user_table (bot.py calls it once before serving)
create_user_table ==
    /\ users_cities' = create_table_if_not_exists(tableExists, users_cities)
    /\ tableExists' = TRUE
    /\ started' = TRUE
    /\ connect_exit(1)
    /\ ret' = Ret("create_user_table")
    /\ UNCHANGED <<pc, loc, openFigs, files>>

\* a call of DB_Map.get_city_by_name
call_get_city_by_name(n) ==
    /\ started
    /\ connect_exit(1)
    /\ ret' = [Ret("get_city_by_name") EXCEPT !.name = n, !.row = get_city_by_name(n)]
    /\ UNCHANGED <<tableExists, users_cities, started, pc, loc, openFigs, files>>

\* a call of DB_Map.get_coords_by_name
call_get_coords_by_name(n) ==
    /\ started
    /\ connect_exit(1)
    /\ ret' = [Ret("get_coords_by_name") EXCEPT
                  !.name = n, !.coords = get_coords_by_name(n)]
    /\ UNCHANGED <<tableExists, users_cities, started, pc, loc, openFigs, files>>

\* DB_Map.add_city up to its lookup: returns False when the city is unknown
add_city_lookup(t, u, n) ==
    /\ started
    /\ pc[t] = "idle"
    /\ LET city == get_city_by_name(n)
       IN  IF city = <<>>
           THEN /\ ret' = [Ret("add_city") EXCEPT !.user = u, !.name = n, !.flag = FALSE]
                /\ UNCHANGED <<pc, loc>>
           ELSE /\ pc' = [pc EXCEPT ![t] = "insert"]
                /\ loc' = [loc EXCEPT ![t] = [user_id |-> u, city_id |-> city[1].id]]
                /\ UNCHANGED ret
    /\ connect_exit(1)
    /\ UNCHANGED <<tableExists, users_cities, started, openFigs, files>>

\* DB_Map.add_city from its INSERT on: a second connection, commit, return True
add_city_insert(t) ==
    /\ pc[t] = "insert"
    /\ IF tableExists
       THEN /\ users_cities' =
                   insert_or_ignore(users_cities, <<loc[t].user_id, loc[t].city_id>>)
            /\ ret' = [Ret("add_city") EXCEPT
                          !.user = loc[t].user_id,
                          !.row = SelectSeq(cities, LAMBDA c : c.id = loc[t].city_id),
                          !.flag = TRUE]
       ELSE /\ users_cities' = users_cities
            /\ ret' = [Ret("add_city") EXCEPT
                          !.user = loc[t].user_id, !.exc = "OperationalError"]
    /\ pc' = [pc EXCEPT ![t] = "idle"]
    /\ loc' = [loc EXCEPT ![t] = NoLoc]
    /\ connect_exit(1)
    /\ UNCHANGED <<tableExists, started, openFigs, files>>

\* a call of DB_Map.select_cities
call_select_cities(u) ==
    /\ started
    /\ connect_exit(1)
    /\ ret' = [Ret("select_cities") EXCEPT
                  !.user = u, !.rows = select_cities(users_cities, u)]
    /\ UNCHANGED <<tableExists, users_cities, started, pc, loc, openFigs, files>>

\* the interpreter frees the connection objects no call refers to any more
collect_connections ==
    /\ openConns > 0
    /\ openConns' = 0
    /\ UNCHANGED <<tableExists, users_cities, started, pc, loc, openFigs, files, ret>>

---------------------------------------------------------------------------
(* Rendering operations *)

\* plt.figure() registers a figure; plt.close(fig) is reached only after savefig
figures_after(open, saved) == IF saved THEN open ELSE open + 1

\* DB_Map.create_graph
create_graph(out_path, cities_arg) ==
    /\ started
    /\ openFigs < MaxOpenFigs
    /\ LET ax == plot_points(BaseMap, cities_arg)
           saved == ax.exc = "" /\ writable(out_path)
       IN  /\ files' = IF saved THEN [files EXCEPT ![out_path] = <<Image(ax)>>] ELSE files
           /\ openFigs' = figures_after(openFigs, saved)
           /\ ret' = [Ret("create_graph") EXCEPT
                         !.pts = cities_arg,
                         !.out_path = out_path,
                         !.path = IF saved THEN <<out_path>> ELSE <<>>,
                         !.exc = IF ax.exc # "" THEN ax.exc
                                 ELSE IF saved THEN "" ELSE "FileNotFoundError"]
    /\ UNCHANGED <<tableExists, users_cities, started, pc, loc, openConns>>

\* DB_Map.draw_distance
draw_distance(city1, city2, out_path) ==
    /\ started
    /\ openFigs < MaxOpenFigs
    /\ LET c1 == get_coords_by_name(city1)
           c2 == get_coords_by_name(city2)
           found == c1 # <<>> /\ c2 # <<>>
           saved == found /\ writable(out_path)
       IN  /\ files' = IF saved
                       THEN [files EXCEPT
                                ![out_path] = <<Image(distance_figure(c1[1], c2[1]))>>]
                       ELSE files
           /\ openFigs' = IF found THEN figures_after(openFigs, saved) ELSE openFigs
           /\ ret' = [Ret("draw_distance") EXCEPT
                         !.name = city1 \o <<"|">> \o city2,
                         !.out_path = out_path,
                         !.path = IF saved THEN <<out_path>> ELSE <<>>,
                         !.exc = IF found /\ ~saved THEN "FileNotFoundError" ELSE ""]
    /\ connect_exit(2)
    /\ UNCHANGED <<tableExists, users_cities, started, pc, loc>>

\* the dicts callers pass to create_graph
Ze == <<"Z", "e'">>
Az == <<"A", "z">>
PointZeLon == Dict(<<Ze>>, <<>>, <<47>>, <<8>>, <<>>, <<>>)
PointZeLng == Dict(<<Ze>>, <<>>, <<47>>, <<>>, <<8>>, <<>>)
PointAzBoth == Dict(<<Az>>, <<>>, <<52>>, <<4>>, <<4>>, <<"NL">>)
PointNameKey == Dict(<<>>, <<Az>>, <<52>>, <<>>, <<4>>, <<>>)
PointUnnamed == Dict(<<>>, <<>>, <<10>>, <<20>>, <<>>, <<>>)
PointEmptyName == Dict(<< <<>> >>, <<>>, <<10>>, <<>>, <<20>>, <<>>)
PointNoLon == Dict(<<Az>>, <<>>, <<52>>, <<>>, <<>>, <<>>)
PointNoLat == Dict(<<Az>>, <<>>, <<>>, <<4>>, <<>>, <<>>)

PointLists ==
    { <<>>, <<PointZeLon>>, <<PointZeLng>>, <<PointNameKey>>, <<PointUnnamed>>,
      <<PointEmptyName>>, <<PointUnnamed, PointZeLon>>, <<PointAzBoth, PointZeLon>>,
      <<PointZeLng, PointNoLon>>, <<PointNoLon, PointZeLon>>, <<PointNoLat>> }

NextStore ==
    \/ create_user_table
    \/ \E n \in Names : call_get_city_by_name(n)
    \/ \E n \in Names : call_get_coords_by_name(n)
    \/ \E t \in Threads, u \in Users, n \in Names : add_city_lookup(t, u, n)
    \/ \E t \in Threads : add_city_insert(t)
    \/ \E u \in Users : call_select_cities(u)
    \/ collect_connections

SpecStore == Init /\ [][NextStore]_vars

NextRender ==
    \/ create_user_table
    \/ \E p \in Paths, cs \in PointLists : create_graph(p, cs)
    \/ \E n1 \in {Ze, <<"Z">>}, n2 \in {Az, <<"Z">>}, p \in Paths : draw_distance(n1, n2, p)
    \/ collect_connections

SpecRender == Init /\ [][NextRender]_vars

\* every operation of the core, over a few inputs of each
CoreNames == {Ze, <<"Z">>}

Next ==
    \/ create_user_table
    \/ \E n \in CoreNames : call_get_city_by_name(n)
    \/ \E n \in CoreNames : call_get_coords_by_name(n)
    \/ \E t \in Threads, u \in Users, n \in CoreNames : add_city_lookup(t, u, n)
    \/ \E t \in Threads : add_city_insert(t)
    \/ \E u \in Users : call_select_cities(u)
    \/ \E cs \in {<<>>, <<PointNoLon>>} : create_graph("map.png", cs)
    \/ \E n \in {Az, <<"Z">>} : draw_distance(Ze, n, "map.png")
    \/ collect_connections

Spec == Init /\ [][Next]_vars

---------------------------------------------------------------------------
(* The vocabulary of the properties *)

\* the letter a cased letter folds to, for every cased letter
FoldChar(c) ==
    CASE c = "A" -> "a"
      [] c = "Z" -> "z"
      [] c = "E'" -> "e'"
      [] OTHER -> c

FoldCase(s) == [i \in 1..Len(s) |-> FoldChar(s[i])]

\* s without its leading and trailing spaces
Trimmed(s) ==
    LET solid == {i \in 1..Len(s) : s[i] # " "}
    IN  IF solid = {} THEN <<>>
        ELSE SubSeq(s, CHOOSE i \in solid : \A j \in solid : i <= j,
                       CHOOSE i \in solid : \A j \in solid : i >= j)

\* two inputs that are equal after trimming and ignoring letter case
SameInput(a, b) == FoldCase(Trimmed(a)) = FoldCase(Trimmed(b))

\* the input names catalog row r
NamesRow(n, r) == FoldCase(Trimmed(n)) = FoldCase(r.city)

\* the input names no catalog row
Unknown(n) == \A i \in 1..Len(cities) : ~NamesRow(n, cities[i])

\* the inputs of Names that name no catalog row
UnknownNames == {n \in Names : Unknown(n)}

\* how often dict d occurs in list l
Occurrences(l, d) == Cardinality({i \in 1..Len(l) : l[i] = d})

\* the dict select_cities returns for catalog row c
CityDict(c) == Dict(<<c.city>>, <<>>, <<c.lat>>, <<c.lng>>, <<c.lng>>, <<c.country>>)

---------------------------------------------------------------------------
(* C1: add_city with a name of no catalog row returns False, raises nothing
   and leaves users_cities, and so every user's select_cities, as it was. *)
C1_UnknownCityNoMutation ==
    [][\A t \in Threads, u \in Users, n \in UnknownNames :
          add_city_lookup(t, u, n) =>
              /\ ret'.op = "add_city" /\ ret'.user = u /\ ret'.name = n
              /\ ret'.flag = FALSE /\ ret'.exc = ""
              /\ pc'[t] = "idle"
              /\ users_cities' = users_cities
              /\ \A v \in Users :
                    select_cities(users_cities', v) = select_cities(users_cities, v)]_vars

\* add_city has returned False for an unknown name to a user who has favorites
C1_Witness ==
    /\ ret.op = "add_city" /\ ret.flag = FALSE /\ Unknown(ret.name)
    /\ select_cities(users_cities, ret.user) # <<>>

---------------------------------------------------------------------------
(* C2: add_city is idempotent.  However its calls follow or overlap each
   other, users_cities never holds a pair twice, no call raises, a call
   returns False only for a name the lookup does not resolve, and once a
   call has returned True its pair is in the table exactly once and the
   user's select_cities holds that city exactly once. *)
C2_AddCityIdempotent ==
    /\ \A row \in BagToSet(users_cities) : CopiesIn(row, users_cities) = 1
    /\ ret.op = "add_city" => ret.exc = ""
    /\ (ret.op = "add_city" /\ ~ret.flag) => get_city_by_name(ret.name) = <<>>
    /\ (ret.op = "add_city" /\ ret.flag) =>
          /\ CopiesIn(<<ret.user, ret.row[1].id>>, users_cities) = 1
          /\ Occurrences(select_cities(users_cities, ret.user), CityDict(ret.row[1])) = 1

\* one call has returned True for a pair while another call for the same pair
\* stands between its lookup and its INSERT
C2_Witness ==
    /\ ret.op = "add_city" /\ ret.flag
    /\ \E t \in Threads :
          /\ pc[t] = "insert"
          /\ loc[t] = [user_id |-> ret.user, city_id |-> ret.row[1].id]

---------------------------------------------------------------------------
(* C3: select_cities(u) returns exactly the cities u has in users_cities,
   each once, in ascending order of city name. *)
C3_ListSortedByName ==
    \A u \in Users :
        LET rows == select_cities(users_cities, u)
        IN  /\ \A i, j \in 1..Len(rows) :
                  i < j => ~BinaryLess(rows[j].city[1], rows[i].city[1])
            /\ \A k \in 1..Len(cities) :
                  Occurrences(rows, CityDict(cities[k])) = CopiesIn(<<u, k>>, users_cities)
            /\ \A i \in 1..Len(rows) : \E k \in 1..Len(cities) : rows[i] = CityDict(cities[k])

\* a user holds both cities and the list just returned starts with "Az"
C3_Witness ==
    /\ ret.op = "select_cities" /\ Len(ret.rows) = 2
    /\ ret.rows = select_cities(users_cities, ret.user)
    /\ ret.rows[1].city = <<Az>> /\ ret.rows[2].city = <<Ze>>

---------------------------------------------------------------------------
(* C4: get_city_by_name gives the same answer for every two inputs that are
   equal after trimming and ignoring letter case, and None for every input
   that names no catalog row. *)
C4_CaseInsensitiveLookup ==
    ret.op = "get_city_by_name" =>
        /\ \A m \in Names : SameInput(m, ret.name) => get_city_by_name(m) = ret.row
        /\ Unknown(ret.name) => ret.row = <<>>

---------------------------------------------------------------------------
(* C5: create_graph draws a point that carries its longitude under 'lng'
   only exactly as the point with the same value under 'lon' only, and the
   other way round: same outcome, same image. *)
OtherLonKey(item) ==
    IF item.lon # <<>> /\ item.lng = <<>> THEN [item EXCEPT !.lon = <<>>, !.lng = item.lon]
    ELSE IF item.lon = <<>> /\ item.lng # <<>>
         THEN [item EXCEPT !.lng = <<>>, !.lon = item.lng]
         ELSE item

OtherLonKeys(items) == [i \in 1..Len(items) |-> OtherLonKey(items[i])]

C5_LonOrLng ==
    ret.op = "create_graph" =>
        LET other == plot_points(BaseMap, OtherLonKeys(ret.pts))
        IN  /\ ret.exc \in {"KeyError", "TypeError"} <=> other.exc # ""
            /\ ret.exc \in {"KeyError", "TypeError"} => other.exc = ret.exc
            /\ ret.path # <<>> => files[ret.out_path] = <<Image(other)>>

\* a point with 'lng' only has been drawn and saved
C5_Witness ==
    /\ ret.op = "create_graph" /\ ret.pts = <<PointZeLng>> /\ ret.path = <<"map.png">>
    /\ files["map.png"][1].markers = << <<8, 47>> >>

---------------------------------------------------------------------------
(* C6 as stated: a successful create_graph draws one marker and one label per
   point, the label one degree right of and above its marker, draws nothing
   for the empty sequence, and returns out_path. *)
LonOf(item) == IF item.lon # <<>> THEN item.lon[1] ELSE item.lng[1]

LabelOf(item) ==
    IF item.city # <<>> /\ item.city[1] # <<>> THEN item.city[1]
    ELSE IF item.name # <<>> /\ item.name[1] # <<>> THEN item.name[1]
    ELSE <<>>

MarkerPerPoint(img, pts) ==
    /\ Len(img.markers) = Len(pts)
    /\ \A i \in 1..Len(pts) : img.markers[i] = <<LonOf(pts[i]), pts[i].lat[1]>>

EmptyRenders ==
    (ret.pts = <<>> /\ writable(ret.out_path)) =>
        /\ ret.exc = "" /\ ret.path = <<ret.out_path>>
        /\ files[ret.out_path] = <<[markers |-> <<>>, texts |-> <<>>, lines |-> <<>>]>>

C6_LabelPerPoint ==
    ret.op = "create_graph" =>
        /\ EmptyRenders
        /\ ret.path # <<>> =>
              LET img == files[ret.out_path][1]
              IN  /\ ret.path = <<ret.out_path>>
                  /\ MarkerPerPoint(img, ret.pts)
                  /\ Len(img.texts) = Len(ret.pts)
                  /\ \A i \in 1..Len(ret.pts) :
                        img.texts[i][1] = <<img.markers[i][1] + 1, img.markers[i][2] + 1>>

(* C6 as amended: one marker per point, and one label for each point whose
   name ('city', else 'name') is a non-empty string; a point without a name
   gets its marker and no label. *)
C6_LabelPerNamedPoint ==
    ret.op = "create_graph" =>
        /\ EmptyRenders
        /\ ret.path # <<>> =>
              LET img == files[ret.out_path][1]
                  named == SelectSeq(ret.pts, LAMBDA p : LabelOf(p) # <<>>)
              IN  /\ ret.path = <<ret.out_path>>
                  /\ MarkerPerPoint(img, ret.pts)
                  /\ Len(img.texts) = Len(named)
                  /\ \A i \in 1..Len(named) :
                        img.texts[i] = << <<LonOf(named[i]) + 1, named[i].lat[1] + 1>>,
                                          LabelOf(named[i]) >>

\* a list of a point without a name and a named point has been drawn and saved
C6_Witness ==
    /\ ret.op = "create_graph" /\ ret.pts = <<PointUnnamed, PointZeLon>>
    /\ ret.path = <<"map.png">>
    /\ Len(files["map.png"][1].markers) = 2 /\ Len(files["map.png"][1].texts) = 1

---------------------------------------------------------------------------
(* C7: create_graph is all-or-nothing.  When a point has no 'lat', or neither
   'lon' nor 'lng', the call raises, returns no path and writes no file. *)
Malformed(item) == item.lat = <<>> \/ (item.lon = <<>> /\ item.lng = <<>>)

C7_AllOrNothing ==
    [][(ret'.op = "create_graph" /\ \E i \in 1..Len(ret'.pts) : Malformed(ret'.pts[i])) =>
          /\ ret'.exc \in {"KeyError", "TypeError"}
          /\ ret'.path = <<>>
          /\ files' = files]_vars

\* a call whose second point has no longitude has raised after an earlier
\* call had written an image
C7_Witness ==
    /\ ret.op = "create_graph" /\ ret.pts = <<PointZeLng, PointNoLon>>
    /\ ret.exc = "TypeError"
    /\ files["map.png"] # <<>>

---------------------------------------------------------------------------
(* C8: favorites only grow.  No step lowers the number of copies of a row of
   users_cities or takes a city out of a user's select_cities, and the table
   changes only in a step that ends an add_city call. *)
C8_FavoritesOnlyGrow ==
    [][/\ \A row \in BagToSet(users_cities) :
             CopiesIn(row, users_cities') >= CopiesIn(row, users_cities)
       /\ \A u \in Users :
             LET before == select_cities(users_cities, u)
                 after == select_cities(users_cities', u)
             IN  \A i \in 1..Len(before) : \E j \in 1..Len(after) : after[j] = before[i]
       /\ users_cities' # users_cities =>
             \E t \in Threads : pc[t] = "insert" /\ pc'[t] = "idle"]_vars

\* create_user_table has run again on a table that holds rows
C8_Witness ==
    /\ ret.op = "create_user_table"
    /\ users_cities # EmptyBag

---------------------------------------------------------------------------
(* C9: after any sequence of render calls no figure is left open. *)
C9_NoOpenFigure == openFigs = 0

---------------------------------------------------------------------------
(* C10: after any sequence of storage calls no connection of a finished call
   is still open. *)
C10_NoOpenConnection == openConns = 0

=============================================================================
